---- MODULE Spec2Model ----
(***************************************************************************)
(* moolang front end: lexical segmenter, tokenizer, recursive-descent      *)
(* parser, compile_lines and the rendering of located errors.              *)
(*                                                                         *)
(* A line of text is a sequence of one-character strings.  A token is a    *)
(* record [op, text, loc]; op is an Operator tag or "Literal"; text is the *)
(* literal's characters (<<>> for operators); loc is <<line, column>>.     *)
(***************************************************************************)
EXTENDS Integers, Sequences, FiniteSets, TLC

VARIABLES
    lines,      \* the text lines the line source yields, in order
    fetched,    \* how many lines Tokenizer has taken from self.lines
    tokens,     \* Tokenizer.tokens: the buffered tokens, reversed (a stack)
    location,   \* Tokenizer.location
    error,      \* Tokenizer.error: NoError or a LocalizedError
    out,        \* the tokens the token iterator has returned so far
    ended,      \* the token iterator has returned None
    pc,         \* position of the driving code
    entry,      \* the parser function under execution
    result,     \* value returned by the parser / compile_lines
    readable,   \* whether File::open on the source path succeeds
    stack       \* nested <LocalizedSourcedError as Display>::fmt frames

vars == <<lines, fetched, tokens, location, error, out, ended, pc, entry,
          result, readable, stack>>

-----------------------------------------------------------------------------
(* Bounds of the model *)

\* lines per input of the tokenizer specification
MaxTokLines == 2
\* characters per input (all lines together) of the tokenizer specification
MaxTokChars == 4
\* tokens the token source of the parser specification yields, per entry
MaxModuleToks == 5
MaxArithToks == 7
MaxAtomToks == 5
MaxFunctionToks == 11
\* lines and characters (all lines together) of a source file given to run
MaxSrcLines == 2
MaxSrcChars == 4
\* nested calls of fmt the stack of the process holds
MaxStack == 3
\* characters of a line given to slice_into_snippets
MaxSliceChars == 5

-----------------------------------------------------------------------------
(* Characters *)

Whitespace == {" "}
AsciiAlnum == {"a", "b", "0", "1", "l", "e", "t", "f", "n"}
AsciiPunct == {"(", ")", "{", "}", ";", ":", "=", "+", "-", "*", "/", "%",
               ",", "@", "#"}
NonAscii   == {"é"}

is_ascii(c)        == c \in Whitespace \cup AsciiAlnum \cup AsciiPunct
is_whitespace(c)   == c \in Whitespace
\* char::is_alphanumeric is Unicode-aware: "é" is alphanumeric
is_alphanumeric(c) == c \in AsciiAlnum \cup NonAscii
is_ascii_punctuation(c) == c \in AsciiPunct

category(c) ==
    IF is_whitespace(c) THEN 0
    ELSE IF is_alphanumeric(c) THEN 1
    ELSE IF is_ascii_punctuation(c) THEN
        CASE c = "(" -> 2
          [] c = ")" -> 3
          [] c = "{" -> 4
          [] c = "}" -> 5
          [] c = ";" -> 6
          [] c = ":" -> 7
          [] c = "=" -> 8
          [] c = "+" -> 9
          [] c = "-" -> 10
          [] c = "*" -> 11
          [] c = "/" -> 12
          [] c = "%" -> 13
          [] c = "," -> 14
          [] OTHER   -> 99
    ELSE 99

-----------------------------------------------------------------------------
(* slice_into_snippets *)

\* index of the last character of the group_by group that starts at i
RECURSIVE GroupEnd(_, _)
GroupEnd(line, i) ==
    IF i < Len(line) /\ category(line[i + 1]) = category(line[i])
    THEN GroupEnd(line, i + 1)
    ELSE i

\* mutant: only the snippet "//" itself ends the line
ContainsComment_ExactlyTwo(s) == s = <<"/", "/">>

\* s.contains("//")
ContainsComment(s) ==
    \E i \in 1 .. Len(s) - 1 : s[i] = "/" /\ s[i + 1] = "/"

\* The iterator chain, group by group from character i on.  acc holds the
\* snippets that passed take_while; a snippet is [text, start], start being
\* the byte offset of &line[i..j+1] in the line.  To close a group, group_by
\* reads the first character of the next group, so inspect's assertion sees
\* one character beyond the group it stops at.
RECURSIVE SliceFrom(_, _, _)
SliceFrom(line, i, acc) ==
    IF i > Len(line) THEN [panic |-> FALSE, snippets |-> acc]
    ELSE LET j    == GroupEnd(line, i)
             seen == i .. (IF j < Len(line) THEN j + 1 ELSE j)
             text == SubSeq(line, i, j)
         IN  IF \E k \in seen : ~ is_ascii(line[k])
             THEN [panic |-> TRUE, snippets |-> <<>>]
             ELSE IF category(line[i]) = 0
             THEN SliceFrom(line, j + 1, acc)
             ELSE IF ContainsComment(text)
             THEN [panic |-> FALSE, snippets |-> acc]
             ELSE SliceFrom(line, j + 1,
                            Append(acc, [text |-> text, start |-> i - 1]))

slice_into_snippets(line) == SliceFrom(line, 1, <<>>)

-----------------------------------------------------------------------------
(* Type::from_str *)

AllAlphanumeric(s) == \A i \in 1 .. Len(s) : is_alphanumeric(s[i])

\* [ok |-> TRUE, op, text] for Ok(type_), [ok |-> FALSE, ..] for Err(TokenError)
from_str(s) ==
    LET Op(o) == [ok |-> TRUE, op |-> o, text |-> <<>>]
    IN  CASE s = <<"+">>           -> Op("Add")
          [] s = <<"-">>           -> Op("Sub")
          [] s = <<"*">>           -> Op("Mul")
          [] s = <<"/">>           -> Op("Div")
          [] s = <<"%">>           -> Op("Mod")
          [] s = <<"*", "*">>      -> Op("Pow")
          [] s = <<",">>           -> Op("Comma")
          [] s = <<":">>           -> Op("Colon")
          [] s = <<";">>           -> Op("Semicolon")
          [] s = <<"=">>           -> Op("Assign")
          [] s = <<"(">>           -> Op("LParen")
          [] s = <<")">>           -> Op("RParen")
          [] s = <<"{">>           -> Op("LCurl")
          [] s = <<"}">>           -> Op("RCurl")
          [] s = <<"l", "e", "t">> -> Op("Let")
          [] s = <<"f", "n">>      -> Op("Fn")
          [] OTHER -> IF AllAlphanumeric(s)
                      THEN [ok |-> TRUE, op |-> "Literal", text |-> s]
                      ELSE [ok |-> FALSE, op |-> "Invalid", text |-> s]

-----------------------------------------------------------------------------
(* Tokenizer *)

DefaultLocation == <<0, 0>>

Token(op, text, loc) == [op |-> op, text |-> text, loc |-> loc]
\* Option<Token>::None as returned by an iterator
NoneTok == Token("None", <<>>, DefaultLocation)

NoError == [kind |-> "None", message |-> <<>>, loc |-> DefaultLocation]
\* error.with_location(location): LocalizedError(Box<cause>, location)
LocalizedError(kind, message, loc) ==
    [kind |-> kind, message |-> message, loc |-> loc]

\* mutant: self.tokens.reverse() left out
Reverse_LeftOut(s) == s

Reverse(s) == [i \in 1 .. Len(s) |-> s[Len(s) + 1 - i]]

\* the for loop of Tokenizer::next over the snippets of one line:
\* location.column = i; push the token, or record the error and break
RECURSIVE Classify(_, _, _, _)
\* mutant: the error takes the column the previous iteration left
Classify_StaleColumn(snippets, i, line, acc) ==
    IF i > Len(snippets) THEN [tokens |-> acc, error |-> NoError]
    ELSE LET t == from_str(snippets[i].text)
         IN  IF t.ok
             THEN Classify(snippets, i + 1, line,
                           Append(acc, Token(t.op, t.text, <<line, i - 1>>)))
             ELSE [tokens |-> acc,
                   error  |-> LocalizedError("TokenError", t.text,
                                             <<line, IF i > 1 THEN i - 2
                                                     ELSE 0>>)]

Classify(snippets, i, line, acc) ==
    IF i > Len(snippets) THEN [tokens |-> acc, error |-> NoError]
    ELSE LET t == from_str(snippets[i].text)
         IN  IF t.ok
             THEN Classify(snippets, i + 1, line,
                           Append(acc, Token(t.op, t.text, <<line, i - 1>>)))
             ELSE [tokens |-> acc,
                   error  |-> LocalizedError("TokenError", t.text,
                                             <<line, i - 1>>)]

\* Tokenizer::next on the tokenizer state t = [fetched, tokens, location,
\* error], reading the lines ls.  Returns the new state, the item and whether
\* slice_into_snippets panicked.
RECURSIVE TokenizerNext(_, _)
\* mutant: the buffered tokens are popped before self.error is looked at
TokenizerNext_PopFirst(ls, t) ==
    IF t.tokens # <<>>
    THEN [t     |-> [t EXCEPT !.tokens = SubSeq(@, 1, Len(@) - 1),
                              !.location = <<@[1], @[2] + 1>>],
          item  |-> t.tokens[Len(t.tokens)],
          panic |-> FALSE]
    ELSE IF t.error # NoError \/ t.fetched >= Len(ls)
    THEN [t |-> t, item |-> NoneTok, panic |-> FALSE]
    ELSE LET line == ls[t.fetched + 1]
             ln   == t.location[1] + 1
             sl   == slice_into_snippets(line)
             cl   == Classify(sl.snippets, 1, ln, <<>>)
         IN  IF sl.panic
             THEN [t     |-> [t EXCEPT !.fetched = @ + 1,
                                       !.location = <<ln, @[2]>>],
                   item  |-> NoneTok,
                   panic |-> TRUE]
             ELSE TokenizerNext(ls, [fetched  |-> t.fetched + 1,
                                     tokens   |-> Reverse(cl.tokens),
                                     location |-> <<ln, 0>>,
                                     error    |-> cl.error])

TokenizerNext(ls, t) ==
    IF t.error # NoError
    THEN [t |-> t, item |-> NoneTok, panic |-> FALSE]
    ELSE IF t.tokens # <<>>
    THEN [t     |-> [t EXCEPT !.tokens = SubSeq(@, 1, Len(@) - 1),
                              !.location = <<@[1], @[2] + 1>>],
          item  |-> t.tokens[Len(t.tokens)],
          panic |-> FALSE]
    ELSE IF t.fetched >= Len(ls)
    THEN [t |-> t, item |-> NoneTok, panic |-> FALSE]
    ELSE LET line == ls[t.fetched + 1]
             ln   == t.location[1] + 1
             sl   == slice_into_snippets(line)
             cl   == Classify(sl.snippets, 1, ln, <<>>)
         IN  IF sl.panic
             THEN [t     |-> [t EXCEPT !.fetched = @ + 1,
                                       !.location = <<ln, @[2]>>],
                   item  |-> NoneTok,
                   panic |-> TRUE]
             ELSE TokenizerNext(ls, [fetched  |-> t.fetched + 1,
                                     tokens   |-> Reverse(cl.tokens),
                                     location |-> <<ln, 0>>,
                                     error    |-> cl.error])

\* Tokenizer::new
NewTokenizer ==
    [fetched |-> 0, tokens |-> <<>>, location |-> <<0, 0>>, error |-> NoError]

Self == [fetched |-> fetched, tokens |-> tokens, location |-> location,
         error |-> error]

-----------------------------------------------------------------------------
(* AST and parser results *)

\* AST { type_, location }: kind is the Type variant; op, text, typ and kids
\* hold the variant's fields (unused ones are "" / <<>>)
Node(kind, op, text, typ, kids, loc) ==
    [kind |-> kind, op |-> op, text |-> text, typ |-> typ, kids |-> kids,
     loc |-> loc]

Literal(text, loc)            == Node("Literal", "", text, <<>>, <<>>, loc)
TypedLiteral(name, typ, loc)  == Node("TypedLiteral", "", name, typ, <<>>, loc)
Expression(op, lhs, rhs, loc) == Node("Expression", op, <<>>, <<>>,
                                      <<lhs, rhs>>, loc)
Lambda(typ, args, body, loc)  == Node("Lambda", "", <<>>, typ,
                                      Append(args, body), loc)
Block(asts, loc)              == Node("Block", "", <<>>, <<>>, asts, loc)
Module(asts, loc)             == Node("Module", "", <<>>, <<>>, asts, loc)

NoAst == Node("None", "", <<>>, <<>>, <<>>, DefaultLocation)
NoErr == [expected |-> "", found |-> [op |-> "", text |-> <<>>]]

\* a token the iterator has not been asked for yet
MoreTok == Token("More", <<>>, DefaultLocation)

\* The token stream s = [toks, eof]: toks are the tokens the underlying
\* iterator has returned, eof whether it has returned None.  Get(s, p) is
\* what peek()/next() gives with p - 1 tokens consumed.
Get(s, p) ==
    IF p <= Len(s.toks) THEN s.toks[p]
    ELSE IF s.eof THEN NoneTok
    ELSE MoreTok

\* Result<AST, ParseError> and the cursor: pos - 1 tokens are consumed.
\* st = "more": the function asked the iterator for a token not yet known.
Ok(ast, p)   == [st |-> "ok", ast |-> ast, pos |-> p, err |-> NoErr]
Fail(e, p)   == [st |-> "err", ast |-> NoAst, pos |-> p, err |-> e]
More(p)      == [st |-> "more", ast |-> NoAst, pos |-> p, err |-> NoErr]

\* expected_found(expected, found): found is the Debug form of a token type,
\* or "end of input" for None
expected_found(expected, found) ==
    [expected |-> expected,
     found    |-> IF found = NoneTok
                  THEN [op |-> "end of input", text |-> <<>>]
                  ELSE [op |-> found.op, text |-> found.text]]

\* cursor after tokens.next() returned t at cursor p
Adv(t, p) == IF t = NoneTok THEN p ELSE p + 1

\* locate(tokens), given the peeked token
locate(t) == IF t = NoneTok THEN DefaultLocation ELSE t.loc

-----------------------------------------------------------------------------
(* Parser *)

\* the one element of a singleton set: Only({e(r) : r \in {v}}) is e(v), with
\* the value v of a call held in r
Only(S) == CHOOSE v \in S : TRUE

\* A parser function calls another one through Call, which names the callee;
\* the while loops are operators of their own that call themselves.
RECURSIVE Call(_, _, _), ArithLoop(_, _, _, _), TermLoop(_, _, _, _),
          FactorLoop(_, _, _, _), BlockLoop(_, _, _, _), ArgsLoop(_, _, _),
          ModuleLoop(_, _, _, _)

parse_typed_literal(s, p, strict) ==
    LET t == Get(s, p)
        x == Get(s, p + 1)
        y == Get(s, p + 2)
    IN  IF t = MoreTok THEN More(p)
        ELSE IF t.op # "Literal"
        THEN Fail(expected_found("literal [name information]", t), Adv(t, p))
        ELSE IF x = MoreTok THEN More(p + 1)
        ELSE IF x.op = "Colon"
        THEN IF y = MoreTok THEN More(p + 2)
             ELSE IF y.op = "Literal"
             THEN Ok(TypedLiteral(t.text, y.text, t.loc), p + 3)
             ELSE Fail(expected_found("literal [type information]", y),
                       Adv(y, p + 2))
        ELSE IF strict
        THEN Fail(expected_found("colon [type information]", x), p + 1)
        ELSE Ok(Literal(t.text, t.loc), p + 1)

\* parse_atom after "(": the expression r and the closing parenthesis
AtomParenthesized(s, r) ==
    LET x == Get(s, r.pos)
    IN  IF r.st # "ok" THEN r
        ELSE IF x = MoreTok THEN More(r.pos)
        ELSE IF x.op = "RParen" THEN Ok(r.ast, r.pos + 1)
        ELSE Fail(expected_found("closing parenthesis", x), Adv(x, r.pos))

\* mutant: the operand of unary "-" is parsed as a Factor
parse_atom_UnaryOverFactor(s, p) ==
    LET t == Get(s, p)
    IN  IF t = MoreTok THEN More(p)
        ELSE IF t.op = "Literal" THEN Ok(Literal(t.text, t.loc), p + 1)
        ELSE IF t.op = "Sub"
        THEN Only({IF r.st # "ok" THEN r
                   ELSE Ok(Expression("Sub", Literal(<<"0">>, t.loc), r.ast,
                                      t.loc), r.pos) :
                   r \in {Call("parse_factor", s, p + 1)}})
        ELSE IF t.op = "Add" THEN Call("parse_atom", s, p + 1)
        ELSE IF t.op = "LParen"
        THEN Only({AtomParenthesized(s, r) :
                   r \in {Call("parse_airthmetic_expression", s, p + 1)}})
        ELSE Fail(expected_found(
                     "literal, unary operator or opening parenthesis", t),
                  Adv(t, p))

parse_atom(s, p) ==
    LET t == Get(s, p)
    IN  IF t = MoreTok THEN More(p)
        ELSE IF t.op = "Literal" THEN Ok(Literal(t.text, t.loc), p + 1)
        ELSE IF t.op = "Sub"
        THEN Only({IF r.st # "ok" THEN r
                   ELSE Ok(Expression("Sub", Literal(<<"0">>, t.loc), r.ast,
                                      t.loc), r.pos) :
                   r \in {Call("parse_atom", s, p + 1)}})
        ELSE IF t.op = "Add" THEN Call("parse_atom", s, p + 1)
        ELSE IF t.op = "LParen"
        THEN Only({AtomParenthesized(s, r) :
                   r \in {Call("parse_airthmetic_expression", s, p + 1)}})
        ELSE Fail(expected_found(
                     "literal, unary operator or opening parenthesis", t),
                  Adv(t, p))

\* mutant: "**" associates to the right
FactorLoop_RightAssoc(s, p, loc, ast) ==
    LET t == Get(s, p)
    IN  IF t = MoreTok THEN More(p)
        ELSE IF t.op = "Pow"
        THEN Only({IF r.st # "ok" THEN r
                   ELSE Ok(Expression(t.op, ast, r.ast, loc), r.pos) :
                   r \in {Call("parse_factor", s, p + 1)}})
        ELSE Ok(ast, p)

FactorLoop(s, p, loc, ast) ==
    LET t == Get(s, p)
    IN  IF t = MoreTok THEN More(p)
        ELSE IF t.op = "Pow"
        THEN Only({IF r.st # "ok" THEN r
                   ELSE FactorLoop(s, r.pos, loc,
                                   Expression(t.op, ast, r.ast, loc)) :
                   r \in {Call("parse_atom", s, p + 1)}})
        ELSE Ok(ast, p)

parse_factor(s, p) ==
    LET t == Get(s, p)
    IN  IF t = MoreTok THEN More(p)
        ELSE Only({IF r.st # "ok" THEN r
                   ELSE FactorLoop(s, r.pos, locate(t), r.ast) :
                   r \in {Call("parse_atom", s, p)}})

TermLoop(s, p, loc, ast) ==
    LET t == Get(s, p)
    IN  IF t = MoreTok THEN More(p)
        ELSE IF t.op \in {"Mul", "Div", "Mod"}
        THEN Only({IF r.st # "ok" THEN r
                   ELSE TermLoop(s, r.pos, loc,
                                 Expression(t.op, ast, r.ast, loc)) :
                   r \in {Call("parse_factor", s, p + 1)}})
        ELSE Ok(ast, p)

parse_term(s, p) ==
    LET t == Get(s, p)
    IN  IF t = MoreTok THEN More(p)
        ELSE Only({IF r.st # "ok" THEN r
                   ELSE TermLoop(s, r.pos, locate(t), r.ast) :
                   r \in {Call("parse_factor", s, p)}})

ArithLoop(s, p, loc, ast) ==
    LET t == Get(s, p)
    IN  IF t = MoreTok THEN More(p)
        ELSE IF t.op \in {"Add", "Sub"}
        THEN Only({IF r.st # "ok" THEN r
                   ELSE ArithLoop(s, r.pos, loc,
                                  Expression(t.op, ast, r.ast, loc)) :
                   r \in {Call("parse_term", s, p + 1)}})
        ELSE Ok(ast, p)

parse_airthmetic_expression(s, p) ==
    LET t == Get(s, p)
    IN  IF t = MoreTok THEN More(p)
        ELSE Only({IF r.st # "ok" THEN r
                   ELSE ArithLoop(s, r.pos, locate(t), r.ast) :
                   r \in {Call("parse_term", s, p)}})

parse_expression(s, p) ==
    LET t == Get(s, p)
    IN  IF t = MoreTok THEN More(p)
        ELSE IF t.op = "LCurl" THEN Call("parse_block", s, p)
        ELSE IF t.op = "Fn" THEN Call("parse_function", s, p)
        ELSE IF t # NoneTok THEN Call("parse_airthmetic_expression", s, p)
        ELSE Fail(expected_found("expression", NoneTok), p)

\* parse_assignment after the name: "=" and the expression
AssignmentValue(s, t, name) ==
    LET x == Get(s, name.pos)
    IN  IF name.st # "ok" THEN name
        ELSE IF x = MoreTok THEN More(name.pos)
        ELSE IF x.op # "Assign"
        THEN Fail(expected_found("assignment operator", x), Adv(x, name.pos))
        ELSE Only({IF r.st # "ok" THEN r
                   ELSE Ok(Expression("Let", name.ast, r.ast, t.loc), r.pos) :
                   r \in {Call("parse_expression", s, name.pos + 1)}})

parse_assignment(s, p) ==
    LET t == Get(s, p)
    IN  IF t = MoreTok THEN More(p)
        ELSE IF t.op # "Let"
        THEN Fail(expected_found("let keyword", t), Adv(t, p))
        ELSE Only({AssignmentValue(s, t, name) :
                   name \in {parse_typed_literal(s, p + 1, FALSE)}})

\* parse_statement after the assignment or expression r: the semicolon
StatementEnd(s, r) ==
    LET x == Get(s, r.pos)
    IN  IF r.st # "ok" THEN r
        ELSE IF x = MoreTok THEN More(r.pos)
        ELSE IF x.op = "Semicolon" THEN Ok(r.ast, r.pos + 1)
        ELSE Fail(expected_found("semicolon", x), Adv(x, r.pos))

parse_statement(s, p) ==
    LET t == Get(s, p)
    IN  IF t = MoreTok THEN More(p)
        ELSE Only({StatementEnd(s, r) :
                   r \in {IF t.op = "Let" THEN Call("parse_assignment", s, p)
                          ELSE Call("parse_expression", s, p)}})

\* the while let Some(token) = tokens.peek() loop of parse_block: it ends at
\* "}" (consumed) and also when peek() returns None
BlockLoop(s, p, loc, asts) ==
    LET t == Get(s, p)
    IN  IF t = MoreTok THEN More(p)
        ELSE IF t = NoneTok THEN Ok(Block(asts, loc), p)
        ELSE IF t.op = "RCurl" THEN Ok(Block(asts, loc), p + 1)
        ELSE Only({IF r.st # "ok" THEN r
                   ELSE BlockLoop(s, r.pos, loc, Append(asts, r.ast)) :
                   r \in {Call("parse_statement", s, p)}})

parse_block(s, p) ==
    LET t == Get(s, p)
    IN  IF t = MoreTok THEN More(p)
        ELSE IF t.op # "LCurl"
        THEN Fail(expected_found("opening curly brace", t), Adv(t, p))
        ELSE BlockLoop(s, p + 1, locate(t), <<>>)

\* the argument loop of parse_function after the argument r: a comma is
\* consumed, a closing parenthesis is left to the next round
ArgsNext(s, r, args) ==
    LET x == Get(s, r.pos)
    IN  IF r.st # "ok" THEN r
        ELSE IF x = MoreTok THEN More(r.pos)
        ELSE IF x.op = "Comma"
        THEN ArgsLoop(s, r.pos + 1, Append(args, r.ast))
        ELSE IF x.op = "RParen"
        THEN ArgsLoop(s, r.pos, Append(args, r.ast))
        ELSE Fail(expected_found("comma or closing parenthesis", x), r.pos)

\* the argument loop of parse_function; the result's ast is a Block that
\* only carries the argument list
ArgsLoop(s, p, args) ==
    LET t == Get(s, p)
    IN  IF t = MoreTok THEN More(p)
        ELSE IF t = NoneTok THEN Ok(Block(args, DefaultLocation), p)
        ELSE IF t.op = "RParen" THEN Ok(Block(args, DefaultLocation), p + 1)
        ELSE IF t.op = "Literal"
        THEN Only({ArgsNext(s, r, args) :
                   r \in {parse_typed_literal(s, p, TRUE)}})
        ELSE Fail(expected_found("literal or closing parenthesis", t), p)

\* parse_function after the argument list a: the return type and the body
FunctionBody(s, t, a) ==
    LET c  == Get(s, a.pos)
        ty == Get(s, a.pos + 1)
    IN  IF a.st # "ok" THEN a
        ELSE IF c = MoreTok THEN More(a.pos)
        ELSE IF c.op # "Colon"
        THEN Fail(expected_found("colon [type information] ", c),
                  Adv(c, a.pos))
        ELSE IF ty = MoreTok THEN More(a.pos + 1)
        ELSE IF ty.op # "Literal"
        THEN Fail(expected_found("literal [type information]", ty),
                  Adv(ty, a.pos + 1))
        ELSE Only({IF b.st # "ok" THEN b
                   ELSE Ok(Lambda(ty.text, a.ast.kids, b.ast, t.loc), b.pos) :
                   b \in {Call("parse_block", s, a.pos + 2)}})

parse_function(s, p) ==
    LET t == Get(s, p)
        l == Get(s, p + 1)
    IN  IF t = MoreTok THEN More(p)
        ELSE IF t.op # "Fn"
        THEN Fail(expected_found("fn keyword", t), Adv(t, p))
        ELSE IF l = MoreTok THEN More(p + 1)
        ELSE IF l.op # "LParen"
        THEN Fail(expected_found("opening parenthesis", l), Adv(l, p + 1))
        ELSE Only({FunctionBody(s, t, a) : a \in {ArgsLoop(s, p + 2, <<>>)}})

ModuleLoop(s, p, loc, asts) ==
    LET t == Get(s, p)
    IN  IF t = MoreTok THEN More(p)
        ELSE IF t = NoneTok THEN Ok(Module(asts, loc), p)
        ELSE Only({IF r.st # "ok" THEN r
                   ELSE ModuleLoop(s, r.pos, loc, Append(asts, r.ast)) :
                   r \in {Call("parse_statement", s, p)}})

parse_module(s, p) ==
    LET t == Get(s, p)
    IN  IF t = MoreTok THEN More(p)
        ELSE ModuleLoop(s, p, locate(t), <<>>)

Call(f, s, p) ==
    CASE f = "parse_atom"                  -> parse_atom(s, p)
      [] f = "parse_factor"                -> parse_factor(s, p)
      [] f = "parse_term"                  -> parse_term(s, p)
      [] f = "parse_airthmetic_expression" -> parse_airthmetic_expression(s, p)
      [] f = "parse_expression"            -> parse_expression(s, p)
      [] f = "parse_assignment"            -> parse_assignment(s, p)
      [] f = "parse_statement"             -> parse_statement(s, p)
      [] f = "parse_block"                 -> parse_block(s, p)
      [] f = "parse_function"              -> parse_function(s, p)

-----------------------------------------------------------------------------
(* Inputs *)

\* all sequences over S of length n
RECURSIVE SeqsOfLen(_, _)
SeqsOfLen(S, n) ==
    IF n = 0 THEN {<<>>}
    ELSE {Append(s, c) : s \in SeqsOfLen(S, n - 1), c \in S}

\* all texts of at most maxLines lines over chars with at most maxChars
\* characters in total
RECURSIVE Texts(_, _, _)
Texts(chars, maxLines, maxChars) ==
    IF maxLines = 0 THEN {<<>>}
    ELSE {<<>>} \cup
         UNION {{<<l>> \o rest : rest \in Texts(chars, maxLines - 1,
                                                 maxChars - Len(l))} :
                l \in UNION {SeqsOfLen(chars, n) : n \in 0 .. maxChars}}

TokChars == {"a", " ", "/", "*", "@"}

-----------------------------------------------------------------------------
(* The tokenizer pulled to exhaustion: for token in tokenize(lines) {}      *)

NoResult == [st |-> "none"]

InitTok ==
    /\ lines \in Texts(TokChars, MaxTokLines, MaxTokChars)
    /\ fetched = NewTokenizer.fetched
    /\ tokens = NewTokenizer.tokens
    /\ location = NewTokenizer.location
    /\ error = NewTokenizer.error
    /\ out = <<>>
    /\ ended = FALSE
    /\ pc = "pulling"
    /\ entry = "tokenize"
    /\ result = NoResult
    /\ readable = TRUE
    /\ stack = 0

\* one call of Tokenizer::next by the consumer
Pull ==
    /\ pc = "pulling"
    /\ LET r == TokenizerNext(lines, Self)
       IN  /\ fetched' = r.t.fetched
           /\ tokens' = r.t.tokens
           /\ location' = r.t.location
           /\ error' = r.t.error
           /\ IF r.panic
              THEN /\ pc' = "panicked"
                   /\ UNCHANGED <<out, ended>>
              ELSE IF r.item = NoneTok
              THEN /\ pc' = "exhausted"
                   /\ ended' = TRUE
                   /\ out' = out
              ELSE /\ pc' = pc
                   /\ out' = Append(out, r.item)
                   /\ ended' = FALSE
    /\ UNCHANGED <<lines, entry, result, readable, stack>>

NextTok == Pull

SpecTok == InitTok /\ [][NextTok]_vars

-----------------------------------------------------------------------------
(* slice_into_snippets called on one line *)

SliceChars == {"a", " ", "/", "(", "é"}

InitSlice ==
    /\ lines \in {<<l>> : l \in UNION {SeqsOfLen(SliceChars, n) :
                                           n \in 0 .. MaxSliceChars}}
    /\ fetched = 0
    /\ tokens = <<>>
    /\ location = DefaultLocation
    /\ error = NoError
    /\ out = <<>>
    /\ ended = FALSE
    /\ pc = "slice"
    /\ entry = "slice_into_snippets"
    /\ result = NoResult
    /\ readable = TRUE
    /\ stack = 0

\* the call: it returns the collected snippets or dies of the assertion
Slice ==
    /\ pc = "slice"
    /\ \E r \in {slice_into_snippets(lines[1])} :
          /\ pc' = IF r.panic THEN "panicked" ELSE "sliced"
          /\ result' = [st |-> "snippets", snippets |-> r.snippets]
    /\ UNCHANGED <<lines, fetched, tokens, location, error, out, ended, entry,
                   readable, stack>>

NextSlice == Slice

SpecSlice == InitSlice /\ [][NextSlice]_vars

-----------------------------------------------------------------------------
(* The tokenizer pulled by a consumer that goes on calling next() after it  *)
(* returned None; result holds the item of the last call.                   *)

InitPoll ==
    /\ lines \in Texts(TokChars, MaxTokLines, MaxTokChars)
    /\ fetched = NewTokenizer.fetched
    /\ tokens = NewTokenizer.tokens
    /\ location = NewTokenizer.location
    /\ error = NewTokenizer.error
    /\ out = <<>>
    /\ ended = FALSE
    /\ pc = "polling"
    /\ entry = "tokenize"
    /\ result = NoResult
    /\ readable = TRUE
    /\ stack = 0

\* one call of Tokenizer::next, whatever the calls before it returned
Poll ==
    /\ pc = "polling"
    /\ \E r \in {TokenizerNext(lines, Self)} :
          /\ fetched' = r.t.fetched
          /\ tokens' = r.t.tokens
          /\ location' = r.t.location
          /\ error' = r.t.error
          /\ result' = [st |-> "item", item |-> r.item]
          /\ pc' = IF r.panic THEN "panicked" ELSE pc
          /\ out' = IF r.panic \/ r.item = NoneTok THEN out
                    ELSE Append(out, r.item)
          /\ ended' = (ended \/ (~ r.panic /\ r.item = NoneTok))
    /\ UNCHANGED <<lines, entry, readable, stack>>

NextPoll == Poll

SpecPoll == InitPoll /\ [][NextPoll]_vars

-----------------------------------------------------------------------------
(* The parser on an arbitrary token iterator.  The parser functions are     *)
(* public and take any Peekable<impl Iterator<Item = Token>>; the iterator  *)
(* yields its tokens on demand, one per call of next().                     *)

ParseEntries == {"parse_module", "parse_airthmetic_expression", "parse_atom",
                 "parse_function"}

Operators == {"Add", "Sub", "Mul", "Div", "Mod", "Pow", "Let", "Fn", "Comma",
              "Colon", "Semicolon", "Assign", "LParen", "RParen", "LCurl",
              "RCurl"}

\* The token types the iterator may yield to each entry.  The arithmetic
\* entries get the arithmetic operators and ";" as the one foreign token;
\* "/" and "%" share the branch of "*" in parse_term and are left to it.
ArithOperators == {"Add", "Sub", "Mul", "Pow", "LParen", "RParen",
                   "Semicolon"}

Vocabulary(e) ==
    {[op |-> o, text |-> <<>>] :
        o \in IF e \in {"parse_airthmetic_expression", "parse_atom"}
              THEN ArithOperators
              ELSE Operators \ {"Div", "Mod"}} \cup
    {[op |-> "Literal", text |-> <<"a">>]}

MaxToks(e) ==
    CASE e = "parse_module" -> MaxModuleToks
      [] e = "parse_function" -> MaxFunctionToks
      [] e = "parse_atom" -> MaxAtomToks
      [] e = "parse_airthmetic_expression" -> MaxArithToks

\* the call of the entry function on the tokens known so far
Run(e, s) ==
    CASE e = "parse_module" -> parse_module(s, 1)
      [] e = "parse_airthmetic_expression" -> parse_airthmetic_expression(s, 1)
      [] e = "parse_atom" -> parse_atom(s, 1)
      [] e = "parse_function" -> parse_function(s, 1)

Stream == [toks |-> out, eof |-> ended]

InitParse ==
    /\ entry \in ParseEntries
    /\ out = <<>>
    /\ ended = FALSE
    /\ pc = "parsing"
    /\ result = NoResult
    /\ lines = <<>>
    /\ fetched = 0
    /\ tokens = <<>>
    /\ location = DefaultLocation
    /\ error = NoError
    /\ readable = TRUE
    /\ stack = 0

\* the parser asks the iterator for its next item and gets a token
IterSome ==
    /\ pc = "parsing"
    /\ \E r \in {Run(entry, Stream)} : r.st = "more"
    /\ Len(out) < MaxToks(entry)
    /\ \E ty \in Vocabulary(entry) :
          out' = Append(out, Token(ty.op, ty.text, <<1, Len(out)>>))
    /\ UNCHANGED <<lines, fetched, tokens, location, error, ended, pc, entry,
                   result, readable, stack>>

\* the parser asks the iterator for its next item and gets None
IterNone ==
    /\ pc = "parsing"
    /\ \E r \in {Run(entry, Stream)} : r.st = "more"
    /\ ended' = TRUE
    /\ UNCHANGED <<lines, fetched, tokens, location, error, out, pc, entry,
                   result, readable, stack>>

\* the entry function returns
ParseReturn ==
    /\ pc = "parsing"
    /\ \E r \in {Run(entry, Stream)} :
          /\ r.st # "more"
          /\ result' = r
    /\ pc' = "returned"
    /\ UNCHANGED <<lines, fetched, tokens, location, error, out, ended, entry,
                   readable, stack>>

NextParse == IterSome \/ IterNone \/ ParseReturn

SpecParse == InitParse /\ [][NextParse]_vars

-----------------------------------------------------------------------------
(* main: run opens the file and gives its lines to compile_lines, which      *)
(* parses the module from the tokenizer; an error is bound to the path and  *)
(* printed with <LocalizedSourcedError as Display>::fmt.                    *)

SrcChars == {"a", ";", "-", "@", " "}

\* Result<(), LocalizedError> of compile_lines; ast is the tree it printed
CompileOk(ast)   == [st |-> "ok", ast |-> ast, err |-> NoError]
CompileErr(e)    == [st |-> "err", ast |-> NoAst, err |-> e]

\* ast::parse: parse_module, a ParseError located at Location::default()
parse(s) ==
    Only({IF r.st = "err"
          THEN [r EXCEPT !.err = LocalizedError("ParseError", r.err,
                                                DefaultLocation)]
          ELSE r :
          r \in {parse_module(s, 1)}})

\* mutant: the parser's result is looked at before the tokenizer's error
compile_lines_ParserFirst(tokError, ast) ==
    IF ast.st = "err" THEN CompileErr(ast.err)
    ELSE IF tokError # NoError THEN CompileErr(tokError)
    ELSE CompileOk(ast.ast)

\* compile_lines after parse returned ast: the value it returns
compile_lines(tokError, ast) ==
    IF tokError # NoError THEN CompileErr(tokError)
    ELSE IF ast.st = "err" THEN CompileErr(ast.err)
    ELSE CompileOk(ast.ast)

InitCompile ==
    /\ readable \in BOOLEAN
    /\ lines \in IF readable THEN Texts(SrcChars, MaxSrcLines, MaxSrcChars)
                 ELSE {<<>>}
    /\ fetched = NewTokenizer.fetched
    /\ tokens = NewTokenizer.tokens
    /\ location = NewTokenizer.location
    /\ error = NewTokenizer.error
    /\ out = <<>>
    /\ ended = FALSE
    /\ pc = "run"
    /\ entry = "compile_lines"
    /\ result = NoResult
    /\ stack = 0

\* run: File::open(args.path); on failure the io error, located at
\* Location::default() and bound to the path, is returned to main
RunOpen ==
    /\ pc = "run"
    /\ IF readable
       THEN /\ pc' = "parsing"
            /\ result' = result
       ELSE /\ pc' = "report"
            /\ result' = CompileErr(LocalizedError("io::Error", <<>>,
                                                   DefaultLocation))
    /\ UNCHANGED <<lines, fetched, tokens, location, error, out, ended, entry,
                   readable, stack>>

\* parse asks the tokenizer for its next item
CompilePull ==
    /\ pc = "parsing"
    /\ \E ast \in {parse(Stream)} : ast.st = "more"
    /\ LET r == TokenizerNext(lines, Self)
       IN  /\ fetched' = r.t.fetched
           /\ tokens' = r.t.tokens
           /\ location' = r.t.location
           /\ error' = r.t.error
           /\ IF r.panic
              THEN /\ pc' = "panicked"
                   /\ UNCHANGED <<out, ended>>
              ELSE IF r.item = NoneTok
              THEN /\ ended' = TRUE
                   /\ UNCHANGED <<out, pc>>
              ELSE /\ out' = Append(out, r.item)
                   /\ UNCHANGED <<ended, pc>>
    /\ UNCHANGED <<lines, entry, result, readable>>
    /\ stack' = stack

\* parse returns and compile_lines returns
CompileReturn ==
    /\ pc = "parsing"
    /\ \E ast \in {parse(Stream)} :
          /\ ast.st # "more"
          /\ result' = compile_lines(error, ast)
    /\ pc' = "compiled"
    /\ UNCHANGED <<lines, fetched, tokens, location, error, out, ended, entry,
                   readable, stack>>

\* run returns to main: Ok(()), or the error bound to the path, which main
\* prints
RunReturn ==
    /\ pc = "compiled"
    /\ pc' = IF result.st = "ok" THEN "exit_ok" ELSE "report"
    /\ UNCHANGED <<lines, fetched, tokens, location, error, out, ended, entry,
                   result, readable, stack>>

\* the triad around line n of the file: once("") ++ lines ++ once(""),
\* skip(n.saturating_sub(1)), take(3); collect_tuple is None unless three
\* items are left
Triad(ls, n) ==
    LET all  == <<<<>>>> \o ls \o <<<<>>>>
        skip == IF n = 0 THEN 0 ELSE n - 1
    IN  IF Len(all) - skip >= 3
        THEN [ok |-> TRUE, prev |-> all[skip + 1], line |-> all[skip + 2],
              next |-> all[skip + 3]]
        ELSE [ok |-> FALSE, prev |-> <<>>, line |-> <<>>, next |-> <<>>]

\* One call of <LocalizedSourcedError as Display>::fmt, up to its first
\* write.  If the file does not open, that is write!(f, "{}", self); if it
\* does, the triad is read and then writeln!(f, "{}", self.red()).  Both
\* format self with Display, which is this function again: a new frame.  No
\* frame reaches the statements after its first write.
Fmt ==
    /\ pc \in {"report", "fmt"}
    /\ stack < MaxStack
    /\ IF readable /\ ~ Triad(lines, result.err.loc[1]).ok
       THEN pc' = "panicked" /\ stack' = stack
       ELSE pc' = "fmt" /\ stack' = stack + 1
    /\ UNCHANGED <<lines, fetched, tokens, location, error, out, ended, entry,
                   result, readable>>

\* the nested frames exhaust the stack of the process
StackOverflow ==
    /\ pc = "fmt"
    /\ stack = MaxStack
    /\ pc' = "stack_overflow"
    /\ UNCHANGED <<lines, fetched, tokens, location, error, out, ended, entry,
                   result, readable, stack>>

NextCompile ==
    \/ RunOpen
    \/ CompilePull
    \/ CompileReturn
    \/ RunReturn
    \/ Fmt
    \/ StackOverflow

SpecCompile == InitCompile /\ [][NextCompile]_vars

-----------------------------------------------------------------------------
(* Properties of the tokenizer *)

\* the tokens of line number n, as the segmenter and from_str give them
LineTokens(line, n) ==
    LET sn == slice_into_snippets(line).snippets
    IN  [c \in 1 .. Len(sn) |->
            Token(from_str(sn[c].text).op, from_str(sn[c].text).text,
                  <<n, c - 1>>)]

RECURSIVE TokensUpTo(_, _)
TokensUpTo(ls, n) ==
    IF n = 0 THEN <<>> ELSE TokensUpTo(ls, n - 1) \o LineTokens(ls[n], n)

\* 0-based indices of the snippets of a line that do not classify
BadColumns(line) ==
    LET sn == slice_into_snippets(line).snippets
    IN  {c \in 0 .. Len(sn) - 1 : ~ from_str(sn[c + 1].text).ok}

BadLines(ls) == {n \in 1 .. Len(ls) : BadColumns(ls[n]) # {}}

Min(S) == CHOOSE x \in S : \A y \in S : x <= y

IsPrefix(s, t) == Len(s) <= Len(t) /\ SubSeq(t, 1, Len(s)) = s

\* C3: when every snippet of every line classifies, the tokens pulled are at
\* every moment a prefix of (the snippets of line 1, then of line 2, ...),
\* each located at (1-based line, 0-based snippet index); at exhaustion they
\* are all of them, every line was fetched, and no error was recorded.  Lines
\* without snippets give no token and still count as lines.
C3_TokensInOrder ==
    BadLines(lines) = {} =>
        /\ IsPrefix(out, TokensUpTo(lines, Len(lines)))
        /\ error = NoError
        /\ pc = "exhausted" =>
              /\ out = TokensUpTo(lines, Len(lines))
              /\ fetched = Len(lines)

\* a two-line input whose first line has no snippet and whose second line
\* has two, pulled to exhaustion
C3_Witness ==
    /\ pc = "exhausted"
    /\ BadLines(lines) = {}
    /\ Len(lines) = 2
    /\ slice_into_snippets(lines[1]).snippets = <<>>
    /\ Len(out) = 2
    /\ out[2].loc = <<2, 1>>

\* C4: if the first snippet that does not classify is snippet c of line n,
\* no line after line n is ever fetched, an error is recorded exactly when
\* line n has been fetched, it is the TokenError of that snippet located at
\* (n, c), and the pulls end with it recorded.
C4_FirstErrorLocated ==
    BadLines(lines) # {} =>
        LET n  == Min(BadLines(lines))
            c  == Min(BadColumns(lines[n]))
            sn == slice_into_snippets(lines[n]).snippets[c + 1]
        IN  /\ fetched <= n
            /\ (error # NoError) <=> (fetched = n)
            /\ error # NoError =>
                  error = LocalizedError("TokenError", sn.text, <<n, c>>)
            /\ pc = "exhausted" => error # NoError

\* the failing snippet is the second snippet of the second line
C4_Witness ==
    /\ pc = "exhausted"
    /\ error # NoError
    /\ error.loc = <<2, 1>>
    /\ fetched = 2

-----------------------------------------------------------------------------
(* The grammar of the language, as sets of derivations.  For a token        *)
(* sequence w and a position i, Deriv...(w, i) is the set of [end, tree]:   *)
(* the tokens w[i .. end-1] derive from the nonterminal and tree is the     *)
(* tree of that derivation, each node located at the production's first     *)
(* token.  Chains of binary operators fold to the left.                     *)

Is(w, i, op) == i >= 1 /\ i <= Len(w) /\ w[i].op = op

SubLevel(lv) == IF lv = "arith" THEN "term" ELSE "factor"

LevelOps(lv) ==
    CASE lv = "arith"  -> {"Add", "Sub"}
      [] lv = "term"   -> {"Mul", "Div", "Mod"}
      [] lv = "factor" -> {"Pow"}

RECURSIVE DerivAtom(_, _), DerivLevel(_, _, _), DerivChain(_, _, _, _),
          DerivStatement(_, _), DerivStatements(_, _), DerivStmtChain(_, _),
          DerivExpression(_, _), DerivBlock(_, _), DerivLambda(_, _),
          DerivParamChain(_, _)

\* Atom := Literal | '-' Atom | '+' Atom | '(' ArithExpr ')'
DerivAtom(w, i) ==
    IF Is(w, i, "Literal")
    THEN {[end |-> i + 1, tree |-> Literal(w[i].text, w[i].loc)]}
    ELSE IF Is(w, i, "Sub")
    THEN {[end  |-> d.end,
           tree |-> Expression("Sub", Literal(<<"0">>, w[i].loc), d.tree,
                               w[i].loc)] : d \in DerivAtom(w, i + 1)}
    ELSE IF Is(w, i, "Add") THEN DerivAtom(w, i + 1)
    ELSE IF Is(w, i, "LParen")
    THEN {[end |-> d.end + 1, tree |-> d.tree] :
             d \in {e \in DerivLevel(w, i + 1, "arith") :
                       Is(w, e.end, "RParen")}}
    ELSE {}

\* the operand of a level: Term for ArithExpr, Factor for Term, Atom for
\* Factor
DerivOperand(w, i, lv) ==
    IF lv = "factor" THEN DerivAtom(w, i)
    ELSE DerivLevel(w, i, SubLevel(lv))

\* X (op X)*: the derivations in S and all their extensions by (op X)
DerivChain(w, S, lv, loc) ==
    IF S = {} THEN {}
    ELSE S \cup DerivChain(w,
            UNION {{[end  |-> e.end,
                     tree |-> Expression(w[d.end].op, d.tree, e.tree, loc)] :
                       e \in DerivOperand(w, d.end + 1, lv)} :
                   d \in {x \in S : \E o \in LevelOps(lv) : Is(w, x.end, o)}},
            lv, loc)

\* ArithExpr, Term, Factor
DerivLevel(w, i, lv) ==
    IF i > Len(w) THEN {}
    ELSE DerivChain(w, DerivOperand(w, i, lv), lv, w[i].loc)

\* TypedLiteral(strict) := Literal (':' Literal)?
DerivTypedLiteral(w, i, strict) ==
    (IF Is(w, i, "Literal") /\ Is(w, i + 1, "Colon") /\ Is(w, i + 2, "Literal")
     THEN {[end  |-> i + 3,
            tree |-> TypedLiteral(w[i].text, w[i + 2].text, w[i].loc)]}
     ELSE {}) \cup
    (IF Is(w, i, "Literal") /\ ~ strict
     THEN {[end |-> i + 1, tree |-> Literal(w[i].text, w[i].loc)]}
     ELSE {})

\* Expression := Block | Lambda | ArithExpr
DerivExpression(w, i) ==
    DerivBlock(w, i) \cup DerivLambda(w, i) \cup DerivLevel(w, i, "arith")

\* Assignment := 'let' TypedLiteral(strict=false) '=' Expression
DerivAssignment(w, i) ==
    IF Is(w, i, "Let")
    THEN UNION {{[end  |-> e.end,
                  tree |-> Expression("Let", n.tree, e.tree, w[i].loc)] :
                    e \in DerivExpression(w, n.end + 1)} :
                n \in {x \in DerivTypedLiteral(w, i + 1, FALSE) :
                          Is(w, x.end, "Assign")}}
    ELSE {}

\* Statement := Assignment ';' | Expression ';'
DerivStatement(w, i) ==
    {[end |-> d.end + 1, tree |-> d.tree] :
        d \in {x \in DerivAssignment(w, i) \cup DerivExpression(w, i) :
                 Is(w, x.end, "Semicolon")}}

\* Statement*: [end, trees]
DerivStmtChain(w, S) ==
    IF S = {} THEN {}
    ELSE S \cup DerivStmtChain(w,
            UNION {{[end |-> e.end, trees |-> Append(d.trees, e.tree)] :
                      e \in DerivStatement(w, d.end)} : d \in S})

DerivStatements(w, i) == DerivStmtChain(w, {[end |-> i, trees |-> <<>>]})

\* Block := '{' Statement* '}'
DerivBlock(w, i) ==
    IF Is(w, i, "LCurl")
    THEN {[end |-> d.end + 1, tree |-> Block(d.trees, w[i].loc)] :
             d \in {x \in DerivStatements(w, i + 1) : Is(w, x.end, "RCurl")}}
    ELSE {}

\* ParamList := TypedLiteral(strict=true) (',' TypedLiteral(strict=true))*
DerivParamChain(w, S) ==
    IF S = {} THEN {}
    ELSE S \cup DerivParamChain(w,
            UNION {{[end |-> e.end, trees |-> Append(d.trees, e.tree)] :
                      e \in DerivTypedLiteral(w, d.end + 1, TRUE)} :
                   d \in {x \in S : Is(w, x.end, "Comma")}})

DerivParamList(w, i) ==
    DerivParamChain(w, {[end |-> d.end, trees |-> <<d.tree>>] :
                           d \in DerivTypedLiteral(w, i, TRUE)})

\* Lambda := 'fn' '(' ParamList? ')' ':' Literal Block
DerivLambda(w, i) ==
    IF Is(w, i, "Fn") /\ Is(w, i + 1, "LParen")
    THEN UNION {{[end  |-> b.end,
                  tree |-> Lambda(w[ps.end + 2].text, ps.trees, b.tree,
                                  w[i].loc)] :
                    b \in DerivBlock(w, ps.end + 3)} :
                ps \in {x \in DerivParamList(w, i + 2) \cup
                                {[end |-> i + 2, trees |-> <<>>]} :
                          /\ Is(w, x.end, "RParen")
                          /\ Is(w, x.end + 1, "Colon")
                          /\ Is(w, x.end + 2, "Literal")}}
    ELSE {}

\* Module := Statement* EOF
DerivModule(w) ==
    {[end  |-> d.end,
      tree |-> Module(d.trees, IF w = <<>> THEN DefaultLocation ELSE w[1].loc)] :
        d \in {x \in DerivStatements(w, 1) : x.end = Len(w) + 1}}

\* the derivations of the nonterminal that the entry function parses
DerivEntry(e, w) ==
    CASE e = "parse_module" -> DerivModule(w)
      [] e = "parse_airthmetic_expression" -> DerivLevel(w, 1, "arith")
      [] e = "parse_atom" -> DerivAtom(w, 1)
      [] e = "parse_function" -> DerivLambda(w, 1)

-----------------------------------------------------------------------------
(* Properties of the parser *)

Returned(e) == pc = "returned" /\ entry = e

OpsOf(w) == [i \in 1 .. Len(w) |-> w[i].op]

\* C2: when parse_airthmetic_expression succeeds, it has consumed the
\* longest prefix of the tokens that derives from ArithExpr, and its tree is
\* the tree of that derivation: additive below multiplicative below power,
\* equal levels folded to the left ("**" too), a parenthesised expression
\* one operand parsed from the additive level.  It fails when no prefix
\* derives.
C2_Precedence ==
    Returned("parse_airthmetic_expression") =>
        LET D == DerivLevel(out, 1, "arith")
        IN  /\ D = {} => result.st = "err"
            /\ result.st = "ok" =>
                  /\ [end |-> result.pos, tree |-> result.ast] \in D
                  /\ \A d \in D : d.end <= result.pos

\* ( a + a ) * a gives Expression(Mul, Expression(Add, a, a), a)
C2_Witness ==
    /\ Returned("parse_airthmetic_expression")
    /\ OpsOf(out) = <<"LParen", "Literal", "Add", "Literal", "RParen", "Mul",
                      "Literal">>
    /\ result.st = "ok"
    /\ result.ast =
          Expression("Mul",
                     Expression("Add", Literal(<<"a">>, <<1, 1>>),
                                Literal(<<"a">>, <<1, 3>>), <<1, 1>>),
                     Literal(<<"a">>, <<1, 6>>), <<1, 0>>)

\* the node a unary sign at the start of the expression produced: from the
\* root along the left operands of the binary nodes that start at that sign
RECURSIVE LeftmostOperand(_, _)
LeftmostOperand(ast, loc) ==
    IF /\ ast.kind = "Expression"
       /\ ast.loc = loc
       /\ ast.kids[1] # Literal(<<"0">>, loc)
    THEN LeftmostOperand(ast.kids[1], loc)
    ELSE ast

\* C10: when the tokens start with a unary sign and the parse succeeds, the
\* sign applies to the atom A that follows it and to nothing more: "-" gives
\* Expression(Sub, Literal 0, A') and "+" gives A', where A' is the tree of
\* A, and this node is the leftmost operand of whatever binary operators
\* follow.  parse_atom returns exactly this node and stops after A.
C10_UnaryBindsAtom ==
    /\ pc = "returned"
    /\ entry \in {"parse_atom", "parse_airthmetic_expression"}
    /\ result.st = "ok"
    /\ out[1].op \in {"Sub", "Add"}
    => \E d \in DerivAtom(out, 2) :
          LET u == IF out[1].op = "Sub"
                   THEN Expression("Sub", Literal(<<"0">>, out[1].loc),
                                   d.tree, out[1].loc)
                   ELSE d.tree
          IN  /\ LeftmostOperand(result.ast, out[1].loc) = u
              /\ entry = "parse_atom" =>
                    result.ast = u /\ result.pos = d.end

\* - a ** a gives Expression(Pow, Expression(Sub, 0, a), a)
C10_Witness ==
    /\ Returned("parse_airthmetic_expression")
    /\ OpsOf(out) = <<"Sub", "Literal", "Pow", "Literal">>
    /\ result.st = "ok"
    /\ result.ast =
          Expression("Pow",
                     Expression("Sub", Literal(<<"0">>, <<1, 0>>),
                                Literal(<<"a">>, <<1, 1>>), <<1, 0>>),
                     Literal(<<"a">>, <<1, 3>>), <<1, 0>>)

\* number of blocks open at the end of w
RECURSIVE OpenBlocks(_)
OpenBlocks(w) ==
    IF w = <<>> THEN 0
    ELSE OpenBlocks(SubSeq(w, 1, Len(w) - 1))
         + (IF w[Len(w)].op = "LCurl" THEN 1
            ELSE IF w[Len(w)].op = "RCurl" THEN -1 ELSE 0)

\* what an error about a missing "}" says it expected
ExpectsClosingCurly(e) ==
    e.expected \in {"closing curly brace", "closing curly brace or statement"}

\* C8: when the input ends inside an open block, where a statement or "}"
\* could follow, parse_module fails with a ParseError that says a closing
\* "}" (or a statement) was expected and end of input was found.
C8_UnterminatedBlockReported ==
    /\ Returned("parse_module")
    /\ ended
    /\ OpenBlocks(out) > 0
    /\ out[Len(out)].op \in {"LCurl", "Semicolon"}
    => /\ result.st = "err"
       /\ result.err.found.op = "end of input"
       /\ ExpectsClosingCurly(result.err)

\* C9: whatever parse_module or parse_function accepts derives from Module,
\* respectively Lambda; in particular every comma of a parameter list is
\* followed by another parameter.  (Stated for token sequences whose blocks
\* are all closed.)
C9_AcceptsOnlyGrammar ==
    /\ pc = "returned"
    /\ entry \in {"parse_module", "parse_function"}
    /\ result.st = "ok"
    /\ OpenBlocks(out) = 0
    => LET w == SubSeq(out, 1, result.pos - 1)
       IN  /\ \E d \in DerivEntry(entry, w) : d.tree = result.ast
           /\ \A i \in 1 .. Len(w) :
                 w[i].op = "Comma" => Is(w, i + 1, "Literal")

-----------------------------------------------------------------------------
(* Properties of compile_lines and of the rendering *)

\* The lexemes of a line under the grammar's terminals, read off character
\* by character: blanks separate, a run of alphanumerics is one word (a
\* keyword or a literal), "**" is one operator, every other operator is one
\* character, "//" starts a comment.  ok is FALSE when a character starts no
\* terminal.
RECURSIVE WordEnd(_, _)
WordEnd(line, i) ==
    IF i < Len(line) /\ is_alphanumeric(line[i + 1])
    THEN WordEnd(line, i + 1)
    ELSE i

RECURSIVE Lexemes(_, _, _)
Lexemes(line, i, acc) ==
    IF i > Len(line) THEN [ok |-> TRUE, toks |-> acc]
    ELSE IF is_whitespace(line[i]) THEN Lexemes(line, i + 1, acc)
    ELSE IF is_alphanumeric(line[i])
    THEN LET j == WordEnd(line, i)
             w == from_str(SubSeq(line, i, j))
         IN  Lexemes(line, j + 1,
                     Append(acc, Token(w.op, w.text, DefaultLocation)))
    ELSE IF i < Len(line) /\ line[i] = "/" /\ line[i + 1] = "/"
    THEN [ok |-> TRUE, toks |-> acc]
    ELSE IF i < Len(line) /\ line[i] = "*" /\ line[i + 1] = "*"
    THEN Lexemes(line, i + 2, Append(acc, Token("Pow", <<>>, DefaultLocation)))
    ELSE IF from_str(<<line[i]>>).ok
    THEN Lexemes(line, i + 1,
                 Append(acc, Token(from_str(<<line[i]>>).op, <<>>,
                                   DefaultLocation)))
    ELSE [ok |-> FALSE, toks |-> <<>>]

RECURSIVE TextLexemes(_, _)
TextLexemes(ls, n) ==
    IF n = 0 THEN [ok |-> TRUE, toks |-> <<>>]
    ELSE LET head == TextLexemes(ls, n - 1)
             last == Lexemes(ls[n], 1, <<>>)
         IN  [ok   |-> head.ok /\ last.ok,
              toks |-> IF head.ok /\ last.ok THEN head.toks \o last.toks
                       ELSE <<>>]

\* a tree without its locations
RECURSIVE Strip(_)
Strip(ast) ==
    [ast EXCEPT !.loc = DefaultLocation,
                !.kids = [i \in 1 .. Len(ast.kids) |-> Strip(ast.kids[i])]]

\* the text's lexemes derive from Module
WellFormed(ls) ==
    /\ TextLexemes(ls, Len(ls)).ok
    /\ DerivModule(TextLexemes(ls, Len(ls)).toks) # {}

\* C1: for every text whose lexemes derive from Module, blanks between
\* adjacent lexemes or not, compile_lines succeeds and the tree it got from
\* parse is, node for node, the tree of the derivation.
C1_WellFormedParses ==
    readable /\ pc = "compiled" /\ WellFormed(lines) =>
        /\ result.st = "ok"
        /\ \E d \in DerivModule(TextLexemes(lines, Len(lines)).toks) :
              Strip(d.tree) = Strip(result.ast)

\* What compile_lines must return for the text ls.  The tokens reach the
\* parser line by line; n is the first line with a snippet that does not
\* classify.  A syntax error within the lines before n comes first; else
\* the TokenError of line n; else the parser's verdict on the whole text.
FirstFailure(ls) ==
    LET bad   == BadLines(ls)
        n     == IF bad = {} THEN Len(ls) + 1 ELSE Min(bad)
        pre   == TokensUpTo(ls, n - 1)
        early == parse([toks |-> pre, eof |-> FALSE])
        whole == parse([toks |-> pre, eof |-> TRUE])
        c     == Min(BadColumns(ls[n]))
    IN  IF early.st = "err" THEN CompileErr(early.err)
        ELSE IF bad # {}
        THEN CompileErr(LocalizedError(
                 "TokenError", slice_into_snippets(ls[n]).snippets[c + 1].text,
                 <<n, c>>))
        ELSE IF whole.st = "err" THEN CompileErr(whole.err)
        ELSE CompileOk(whole.ast)

\* C5: the first failure, lexical or syntactic, halts compile_lines.  From
\* the moment the tokenizer has recorded an error or the parser has failed,
\* no line is fetched and no token reaches the parser; compile_lines returns
\* the Err of that first failure, a recorded tokenizer error also when the
\* parser fails or succeeds on the tokens it got; an Err carries no tree.
C5_FirstFailureHalts ==
    /\ [](readable /\ pc \notin {"run", "parsing"} =>
            /\ result = FirstFailure(lines)
            /\ result.st = "err" => result.ast = NoAst
            /\ error # NoError => result = CompileErr(error))
    /\ [][(error # NoError \/ pc # "parsing" \/ parse(Stream).st = "err") =>
            fetched' = fetched /\ out' = out /\ error' = error]_vars

\* the second line does not classify after the parser took "a ;" from the
\* first: the parser succeeds on the tokens it got and compile_lines returns
\* the tokenizer's error
C5_Witness ==
    /\ pc = "compiled"
    /\ OpsOf(out) = <<"Literal", "Semicolon">>
    /\ error = LocalizedError("TokenError", <<"@">>, <<2, 0>>)
    /\ parse(Stream).st = "ok"
    /\ result = CompileErr(error)

\* C6: when the source file cannot be opened, printing the error ends
\* normally: the process does not die of the nesting of fmt frames.
C6_UnreadableRenderEnds ==
    ~ readable => pc # "stack_overflow"

\* C7: when the source file is readable, printing the error compile_lines
\* returned ends normally, neither by a panic nor by the nesting of fmt
\* frames.
C7_ReadableRenderEnds ==
    readable /\ result # NoResult /\ result.st = "err" =>
        pc \notin {"stack_overflow", "panicked"}

-----------------------------------------------------------------------------
(* Properties of the tokenizer pulled past its end *)

\* C11: once a snippet has failed to classify, the call of next() that met
\* it and every later call return None: the tokens handed out are those of
\* the lines before the failing one and none of the failing line, they never
\* grow again, no further line is fetched, and the recorded error stays the
\* TokenError of that snippet.
C11_ErroredIsTerminal ==
    /\ [](error # NoError =>
            /\ result = [st |-> "item", item |-> NoneTok]
            /\ ended
            /\ fetched = Min(BadLines(lines))
            /\ out = TokensUpTo(lines, fetched - 1))
    /\ [][error # NoError =>
            /\ error' = error
            /\ out' = out
            /\ fetched' = fetched
            /\ result' = [st |-> "item", item |-> NoneTok]]_vars

\* the line `a @`: its second snippet fails, and the token of its first
\* snippet is never handed out
C11_Witness ==
    /\ pc = "polling"
    /\ lines = <<<<"a", " ", "@">>>>
    /\ error = LocalizedError("TokenError", <<"@">>, <<1, 1>>)
    /\ tokens # <<>>
    /\ out = <<>>
    /\ result = [st |-> "item", item |-> NoneTok]

-----------------------------------------------------------------------------
(* Properties of slice_into_snippets *)

IsAsciiLine(l) == \A k \in 1 .. Len(l) : is_ascii(l[k])

\* the maximal runs <<i, j>> of characters of one category
MaximalRuns(l) ==
    {r \in (1 .. Len(l)) \X (1 .. Len(l)) :
        /\ r[1] <= r[2]
        /\ \A k \in r[1] .. r[2] : category(l[k]) = category(l[r[1]])
        /\ r[1] = 1 \/ category(l[r[1] - 1]) # category(l[r[1]])
        /\ r[2] = Len(l) \/ category(l[r[2] + 1]) # category(l[r[1]])}

\* the runs whose text contains "//"
CommentRuns(l) ==
    {r \in MaximalRuns(l) :
        \E k \in r[1] .. r[2] - 1 : l[k] = "/" /\ l[k + 1] = "/"}

\* the runs that are snippets: not blank, and before every comment run
SnippetRuns(l) ==
    {r \in MaximalRuns(l) :
        /\ ~ is_whitespace(l[r[1]])
        /\ \A c \in CommentRuns(l) : r[1] < c[1]}

\* C12: on an ASCII line slice_into_snippets returns, and its snippets are,
\* from left to right, the maximal runs of one category that are not blank
\* and start before the first run containing "//": each is the non-empty
\* text of its run at the run's offset, and they do not overlap.
C12_SnippetsAreRuns ==
    pc \in {"sliced", "panicked"} /\ IsAsciiLine(lines[1]) =>
        LET l  == lines[1]
            sn == result.snippets
        IN  /\ pc = "sliced"
            /\ {<<sn[k].start + 1, sn[k].start + Len(sn[k].text)>> :
                   k \in 1 .. Len(sn)} = SnippetRuns(l)
            /\ \A k \in 1 .. Len(sn) :
                  /\ sn[k].text # <<>>
                  /\ sn[k].text = SubSeq(l, sn[k].start + 1,
                                         sn[k].start + Len(sn[k].text))
            /\ \A k \in 1 .. Len(sn) - 1 :
                  sn[k].start + Len(sn[k].text) <= sn[k + 1].start

\* `(( ///`: one snippet `((`; the run `///` and what follows are dropped
C12_Witness ==
    /\ pc = "sliced"
    /\ lines[1] = <<"(", "(", "/", "/", "/">>
    /\ result.snippets = <<[text |-> <<"(", "(">>, start |-> 0]>>

\* C13: on a line with a non-ASCII character, wherever it stands,
\* slice_into_snippets dies of the assertion and returns nothing.
C13_NonAsciiPanics ==
    pc \in {"sliced", "panicked"} /\ ~ IsAsciiLine(lines[1]) =>
        pc = "panicked"

====
